---- MODULE Spec2Model ----
(***************************************************************************)
(* Model of FuturesDash.py: the change computation (compute_change), the   *)
(* market-signal rules (analyze_market) and one refresh cycle of main.     *)
(*                                                                         *)
(* Representation of Python values:                                        *)
(*   None     the empty tuple <<>>                                         *)
(*   a float  a pair <<n, d>>: the rational n/d in lowest terms with d > 0,*)
(*            or, with d = 0, the IEEE specials numpy produces on a        *)
(*            division by zero: <<1,0>> = inf, <<-1,0>> = -inf,            *)
(*            <<0,0>> = nan                                                *)
(*   a dict   the sequence of its <<key, value>> items in insertion order  *)
(*   a DataFrame  the sequence of its rows, each [date, close], in index   *)
(*            order                                                        *)
(***************************************************************************)
EXTENDS Integers, Sequences, FiniteSets

VARIABLES pc, idx, df, result, changes, data_dict, signals, shown

vars == <<pc, idx, df, result, changes, data_dict, signals, shown>>

\* Bounds of the enumerated price series.
MaxLen == 4
MaxDays == 3
MaxPrice == 3

----------------------------------------------------------------------------
\* Floats

None == <<>>

Abs(x) == IF x < 0 THEN -x ELSE x

Sign(x) == IF x > 0 THEN 1 ELSE IF x < 0 THEN -1 ELSE 0

RECURSIVE Gcd(_, _)
Gcd(a, b) == IF b = 0 THEN a ELSE Gcd(b, a % b)

\* The float n/d: lowest terms, positive denominator; d = 0 gives inf, -inf or nan.
Flt(n, d) ==
    IF d = 0 THEN <<Sign(n), 0>>
    ELSE LET g == Gcd(Abs(n), Abs(d))
         IN  <<(Sign(d) * n) \div g, Abs(d) \div g>>

IsNan(x) == x = <<0, 0>>

FSub(x, y) ==
    IF x[2] = 0 \/ y[2] = 0
    THEN (IF IsNan(x) \/ IsNan(y) \/ (x[2] = 0 /\ y[2] = 0 /\ x[1] = y[1])
          THEN <<0, 0>>
          ELSE IF x[2] = 0 THEN x ELSE <<-y[1], 0>>)
    ELSE Flt(x[1] * y[2] - y[1] * x[2], x[2] * y[2])

FMul(x, y) ==
    IF IsNan(x) \/ IsNan(y) THEN <<0, 0>>
    ELSE Flt(x[1] * y[1], x[2] * y[2])

\* numpy float64 division: x/0 is inf or -inf, 0/0 is nan, nothing is raised.
FDiv(x, y) ==
    IF IsNan(x) \/ IsNan(y) \/ (x[2] = 0 /\ y[2] = 0) THEN <<0, 0>>
    ELSE Flt(x[1] * y[2], x[2] * y[1])

\* x > y, x < y for floats; every comparison with nan is false.
FGt(x, y) ==
    /\ ~IsNan(x) /\ ~IsNan(y)
    /\ IF x[2] = 0 THEN x[1] = 1 /\ y # x
       ELSE IF y[2] = 0 THEN y[1] = -1
       ELSE x[1] * y[2] > y[1] * x[2]

FLt(x, y) == FGt(y, x)

FAbs(x) == <<Abs(x[1]), x[2]>>

----------------------------------------------------------------------------
\* compute_change

Price(c) == <<c, 1>>

Row(d, c) == [date |-> d, close |-> Price(c)]

\* sorted(set(df.index.date))
RECURSIVE SortedDates(_)
SortedDates(S) ==
    IF S = {} THEN <<>>
    ELSE LET m == CHOOSE x \in S : \A y \in S : x <= y
         IN  <<m>> \o SortedDates(S \ {m})

Days(frame) == SortedDates({frame[i].date : i \in 1..Len(frame)})

\* df[df.index.date == day]['Close']
CloseOn(frame, day) ==
    LET Hit(r) == r.date = day
        rows == SelectSeq(frame, Hit)
    IN  [i \in 1..Len(rows) |-> rows[i].close]

\* df['Close']
Close(frame) == [i \in 1..Len(frame) |-> frame[i].close]

Triple(c, r, l) == [change |-> c, ref |-> r, latest |-> l]

\* series.iloc[0] and series.iloc[-1] of a non-empty series
IlocFirstAsLast(series) == series[Len(series)]

iloc_first(series) == series[1]

iloc_last(series) == series[Len(series)]

\* days[-2] and days[-1]
PrevDayFirst(days) == days[1]

prev_day_of(days) == days[Len(days) - 1]

current_day_of(days) == days[Len(days)]

PctChangeOfLatest(a, b) == FMul(FDiv(FSub(b, a), b), Price(100))

PctChangeGuarded(a, b) ==
    IF a = Price(0) THEN None ELSE FMul(FDiv(FSub(b, a), a), Price(100))

\* (b - a) / a * 100
PctChange(a, b) == FMul(FDiv(FSub(b, a), a), Price(100))

compute_change(frame) ==
    IF Len(frame) = 0 THEN Triple(None, None, None)
    ELSE LET days == Days(frame)
         IN  IF Len(days) >= 2
             THEN LET prev_day == prev_day_of(days)
                      current_day == current_day_of(days)
                      prev_rows == CloseOn(frame, prev_day)
                      cur_rows == CloseOn(frame, current_day)
                  IN  IF Len(prev_rows) = 0 \/ Len(cur_rows) = 0
                      THEN Triple(None, None, None)
                      ELSE LET prev_close == iloc_last(prev_rows)
                               current_latest == iloc_last(cur_rows)
                           IN  Triple(PctChange(prev_close, current_latest),
                                      prev_close, current_latest)
             ELSE LET open_price == iloc_first(Close(frame))
                      latest_price == iloc_last(Close(frame))
                  IN  Triple(PctChange(open_price, latest_price),
                             open_price, latest_price)

----------------------------------------------------------------------------
\* The price series a provider can deliver: rows in ascending timestamp order,
\* so the dates of consecutive rows never decrease.

ScenarioA == <<Row(1, 99), Row(1, 100), Row(2, 101), Row(2, 102)>>

ScenarioB == <<Row(1, 50), Row(1, 51), Row(1, 49)>>

Ascending(dts) == \A i \in 1..(Len(dts) - 1) : dts[i] <= dts[i + 1]

\* frame is one of the enumerated series: up to MaxLen rows on dates 1..MaxDays
\* with closes 0..MaxPrice, or one of the two scenarios.
IsSeries(frame) ==
    \/ \E n \in 0..MaxLen :
         \E dts \in [1..n -> 1..MaxDays], cls \in [1..n -> 0..MaxPrice] :
            /\ Ascending(dts)
            /\ frame = [i \in 1..n |-> Row(dts[i], cls[i])]
    \/ frame \in {ScenarioA, ScenarioB}

----------------------------------------------------------------------------
\* compute_change applied to one series.

InitChange ==
    /\ pc = "call"
    /\ idx = 0
    /\ IsSeries(df)
    /\ result = Triple(None, None, None)
    /\ changes = <<>>
    /\ data_dict = <<>>
    /\ signals = <<>>
    /\ shown = <<>>

ComputeChange ==
    /\ pc = "call"
    /\ result' = compute_change(df)
    /\ pc' = "returned"
    /\ UNCHANGED <<idx, df, changes, data_dict, signals, shown>>

NextChange == ComputeChange

SpecChange == InitChange /\ [][NextChange]_vars

----------------------------------------------------------------------------
\* analyze_market

BullishLabel == "Bullish: S&P 500 and Nasdaq rising with falling 10-Year Treasury yields indicate strong market sentiment."

BearishLabel == "Bearish: Declines across equity futures combined with rising volatility or safe-haven assets suggest a risk-off environment."

DefensiveLabel == "Defensive Rotation: Stable S&P 500 but weakness in Nasdaq and Russell 2000 implies investors may be shifting toward blue-chip stocks."

InflationLabel == "Inflation Concerns: A falling S&P 500 alongside rising crude oil and a stronger dollar may point to inflationary pressures."

FallbackLabel == "No dominant signal detected; the market could trade sideways or await further catalysts."

Zero == Price(0)

Half == Flt(1, 2)

\* changes.get(key): the value stored under key, None when the key is absent.
dict_get(d, key) ==
    IF \E i \in 1..Len(d) : d[i][1] = key
    THEN d[CHOOSE i \in 1..Len(d) : d[i][1] = key][2]
    ELSE None

\* d[key] = value: replaces the value of a present key, appends a new item.
dict_set(d, key, value) ==
    IF \E i \in 1..Len(d) : d[i][1] = key
    THEN [i \in 1..Len(d) |-> IF d[i][1] = key THEN <<key, value>> ELSE d[i]]
    ELSE Append(d, <<key, value>>)

Truthy(x) == x # None /\ x # Zero

\* x is not None
IsNotNone(x) == x # None

BullishAnyIndex(es, nq, zn) == (FGt(es, Zero) \/ FGt(nq, Zero)) /\ FLt(zn, Zero)

\* es > 0 and nq > 0 and zn < 0
BullishCond(es, nq, zn) == FGt(es, Zero) /\ FGt(nq, Zero) /\ FLt(zn, Zero)

BearishNoYield(es, nq, rty, vx, gc, zn) ==
    /\ FLt(es, Zero) /\ FLt(nq, Zero) /\ FLt(rty, Zero)
    /\ (FGt(vx, Zero) \/ FGt(gc, Zero))

\* es < 0 and nq < 0 and rty < 0 and (vx > 0 or gc > 0 or zn > 0)
BearishCond(es, nq, rty, vx, gc, zn) ==
    /\ FLt(es, Zero) /\ FLt(nq, Zero) /\ FLt(rty, Zero)
    /\ (FGt(vx, Zero) \/ FGt(gc, Zero) \/ FGt(zn, Zero))

\* abs(es) < 0.5 and nq < 0 and rty < 0
DefensiveCond(es, nq, rty) ==
    FLt(FAbs(es), Half) /\ FLt(nq, Zero) /\ FLt(rty, Zero)

\* es < 0 and cl > 0 and dxy > 0
InflationCond(es, cl, dxy) == FLt(es, Zero) /\ FGt(cl, Zero) /\ FGt(dxy, Zero)

AlwaysFallback(sigs) == Append(sigs, FallbackLabel)

\* if not signals: signals.append(fallback)
with_fallback(sigs) == IF Len(sigs) = 0 THEN Append(sigs, FallbackLabel) ELSE sigs

analyze_market(chg) ==
    LET es == dict_get(chg, "ES=F")
        nq == dict_get(chg, "NQ=F")
        ym == dict_get(chg, "YM=F")
        rty == dict_get(chg, "RTY=F")
        zn == dict_get(chg, "ZN=F")
        vx == dict_get(chg, "VX=F")
        cl == dict_get(chg, "CL=F")
        gc == dict_get(chg, "GC=F")
        dxy == dict_get(chg, "DX-Y.NYB")
        s0 == <<>>
        s1 == IF IsNotNone(es) /\ IsNotNone(nq) /\ IsNotNone(zn)
              THEN (IF BullishCond(es, nq, zn) THEN Append(s0, BullishLabel) ELSE s0)
              ELSE s0
        s2 == IF /\ IsNotNone(es) /\ IsNotNone(nq) /\ IsNotNone(rty)
                 /\ IsNotNone(vx) /\ IsNotNone(gc) /\ IsNotNone(zn)
              THEN (IF BearishCond(es, nq, rty, vx, gc, zn)
                    THEN Append(s1, BearishLabel) ELSE s1)
              ELSE s1
        s3 == IF IsNotNone(es) /\ IsNotNone(nq) /\ IsNotNone(rty)
              THEN (IF DefensiveCond(es, nq, rty) THEN Append(s2, DefensiveLabel) ELSE s2)
              ELSE s2
        s4 == IF IsNotNone(es) /\ IsNotNone(cl) /\ IsNotNone(dxy)
              THEN (IF InflationCond(es, cl, dxy) THEN Append(s3, InflationLabel) ELSE s3)
              ELSE s3
    IN  with_fallback(s4)

----------------------------------------------------------------------------
\* analyze_market applied to one change map.

\* The keys analyze_market reads, in the order main inserts them, and reversed.
ReadOrder == <<"ES=F", "NQ=F", "YM=F", "RTY=F", "VX=F", "ZN=F", "CL=F", "GC=F", "DX-Y.NYB">>

Reversed(s) == [i \in 1..Len(s) |-> s[Len(s) + 1 - i]]

KeyOrders == {ReadOrder, Reversed(ReadOrder)}

ReadSymbols == {ReadOrder[i] : i \in 1..Len(ReadOrder)}

\* The key sets of the enumerated maps: every read key, all but one, the three
\* keys of the Bullish rule alone, and none.
KeyFamilies ==
    {ReadSymbols, {"ES=F", "NQ=F", "ZN=F"}, {}}
        \cup {ReadSymbols \ {k} : k \in ReadSymbols \ {"YM=F"}}

\* The change values enumerated for a key: None, a loss, a gain; for the index
\* and yield keys also zero; for the broad index also values inside the 0.5
\* band and nan.
Samples(k) ==
    IF k = "ES=F"
    THEN {None, Price(-1), Flt(-1, 4), Zero, Flt(1, 4), Price(1), <<0, 0>>}
    ELSE IF k = "YM=F" THEN {Price(1)}
    ELSE IF k \in {"NQ=F", "RTY=F", "ZN=F"} THEN {None, Price(-1), Zero, Price(1)}
    ELSE {None, Price(-1), Price(1)}

Choice(k, keys) == IF k \in keys THEN Samples(k) ELSE {None}

\* The dict with the given keys, inserted in the given order.
Items(keys, order, vals) ==
    LET In(k) == k \in keys
        ks == SelectSeq(order, In)
    IN  [i \in 1..Len(ks) |-> <<ks[i], vals[ks[i]]>>]

IsChangeMap(d) ==
    \E keys \in KeyFamilies, order \in KeyOrders :
      \E es \in Choice("ES=F", keys), nq \in Choice("NQ=F", keys),
         ym \in Choice("YM=F", keys), rty \in Choice("RTY=F", keys),
         vx \in Choice("VX=F", keys), zn \in Choice("ZN=F", keys),
         cl \in Choice("CL=F", keys), gc \in Choice("GC=F", keys),
         dxy \in Choice("DX-Y.NYB", keys) :
        d = Items(keys, order,
                  [k \in ReadSymbols |->
                     CASE k = "ES=F" -> es [] k = "NQ=F" -> nq [] k = "YM=F" -> ym
                       [] k = "RTY=F" -> rty [] k = "VX=F" -> vx [] k = "ZN=F" -> zn
                       [] k = "CL=F" -> cl [] k = "GC=F" -> gc [] OTHER -> dxy])

InitSignal ==
    /\ pc = "call"
    /\ idx = 0
    /\ df = <<>>
    /\ result = Triple(None, None, None)
    /\ IsChangeMap(changes)
    /\ data_dict = <<>>
    /\ signals = <<>>
    /\ shown = <<>>

AnalyzeMarket ==
    /\ pc = "call"
    /\ signals' = analyze_market(changes)
    /\ pc' = "returned"
    /\ UNCHANGED <<idx, df, result, changes, data_dict, shown>>

NextSignal == AnalyzeMarket

SpecSignal == InitSignal /\ [][NextSignal]_vars

----------------------------------------------------------------------------
\* One refresh cycle of main.

\* The keys of main's tickers dict, in insertion order.
Tickers ==
    <<"ES=F", "NQ=F", "YM=F", "RTY=F", "VX=F", "ZN=F", "ZB=F", "CL=F", "GC=F",
      "HG=F", "DX-Y.NYB", "6E=F", "6J=F">>

TickerNames ==
    <<"S&P 500 Futures (ES)", "Nasdaq 100 Futures (NQ)", "Dow Jones Futures (YM)",
      "Russell 2000 Futures (RTY)", "VIX Futures (VX)",
      "10-Year Treasury Note Futures (ZN)", "30-Year Bond Futures (ZB)",
      "Crude Oil Futures (CL)", "Gold Futures (GC)", "Copper Futures (HG)",
      "U.S. Dollar Index", "Euro Futures (6E)", "Japanese Yen Futures (6J)">>

\* index_tickers, VX=F, bond_tickers, commodity_tickers, currency_tickers
DisplayOrder ==
    <<"ES=F", "NQ=F", "YM=F", "RTY=F", "VX=F", "ZN=F", "ZB=F", "CL=F", "GC=F",
      "HG=F", "DX-Y.NYB", "6E=F", "6J=F">>

\* What get_data can return for a ticker: the empty frame (no data, or the
\* fetch raised) or a series; two series for the symbols the rules compare.
Feeds(ticker) ==
    IF ticker \in {"ES=F", "NQ=F", "RTY=F", "VX=F", "ZN=F", "CL=F", "GC=F", "DX-Y.NYB"}
    THEN {<<>>, ScenarioA, ScenarioB}
    ELSE {<<>>, ScenarioA}

LoopDoneEarly(i) == i >= Len(Tickers) - 1

\* the for loop over tickers.items() is exhausted
LoopDone(i) == i = Len(Tickers)

Init ==
    /\ pc = "loop"
    /\ idx = 0
    /\ df = <<>>
    /\ result = Triple(None, None, None)
    /\ changes = <<>>
    /\ data_dict = <<>>
    /\ signals = <<>>
    /\ shown = <<>>

\* One iteration of the loop: fetch, compute, store.
LoopBody ==
    /\ pc = "loop"
    /\ ~LoopDone(idx)
    /\ LET ticker == Tickers[idx + 1]
           name == TickerNames[idx + 1]
       IN  \E frame \in Feeds(ticker) :
             LET r == compute_change(frame)
             IN  /\ df' = frame
                 /\ result' = r
                 /\ changes' = dict_set(changes, ticker, r.change)
                 /\ data_dict' = dict_set(data_dict, ticker,
                                          [name |-> name, data |-> frame,
                                           change |-> r.change, ref |-> r.ref,
                                           latest |-> r.latest])
    /\ idx' = idx + 1
    /\ UNCHANGED <<pc, signals, shown>>

\* signals = analyze_market(changes), once the loop has ended
Analyze ==
    /\ pc = "loop"
    /\ LoopDone(idx)
    /\ signals' = analyze_market(changes)
    /\ pc' = "render"
    /\ UNCHANGED <<idx, df, result, changes, data_dict, shown>>

\* The five display sections: per ticker its name, the change line or
\* "Data unavailable", and the chart or "Data not available."
Render ==
    /\ pc = "render"
    /\ shown' = [i \in 1..Len(DisplayOrder) |->
                   LET info == dict_get(data_dict, DisplayOrder[i])
                   IN  [name |-> info.name,
                        change |-> IF info.change # None
                                   THEN "Change" ELSE "Data unavailable",
                        chart |-> IF Len(info.data) = 0
                                  THEN "Data not available." ELSE "line_chart"]]
    /\ pc' = "done"
    /\ UNCHANGED <<idx, df, result, changes, data_dict, signals>>

\* st_autorefresh reruns the script: main starts again with empty dicts.
Refresh ==
    /\ pc = "done"
    /\ pc' = "loop"
    /\ idx' = 0
    /\ df' = <<>>
    /\ result' = Triple(None, None, None)
    /\ changes' = <<>>
    /\ data_dict' = <<>>
    /\ signals' = <<>>
    /\ shown' = <<>>

Next == LoopBody \/ Analyze \/ Render \/ Refresh

Spec == Init /\ [][Next]_vars

----------------------------------------------------------------------------
\* Properties of compute_change (checked under SpecChange).

DateSet(frame) == {frame[i].date : i \in 1..Len(frame)}

LastDate(frame) == CHOOSE d \in DateSet(frame) : \A e \in DateSet(frame) : e <= d

SecondLastDate(frame) ==
    CHOOSE d \in DateSet(frame) \ {LastDate(frame)} :
        \A e \in DateSet(frame) \ {LastDate(frame)} : e <= d

\* The close of the last row of the frame dated d.
LastCloseOn(frame, d) ==
    LET i == CHOOSE k \in 1..Len(frame) :
                 /\ frame[k].date = d
                 /\ \A j \in (k + 1)..Len(frame) : frame[j].date # d
    IN  frame[i].close

\* The frame without the rows dated before its second-to-last date.
LastTwoDays(frame) ==
    LET Recent(r) == r.date >= SecondLastDate(frame)
    IN  SelectSeq(frame, Recent)

AllNone(t) == t.change = None /\ t.ref = None /\ t.latest = None

AllDefined(t) == t.change # None /\ t.ref # None /\ t.latest # None

\* C1: for a series spanning two or more dates, referencePrice is the last
\* close of the second-to-last date and latestPrice the last close of the last
\* date, and rows of earlier dates do not change the result.
C1_PreviousDayReference ==
    (pc = "returned" /\ Cardinality(DateSet(df)) >= 2) =>
        /\ result.ref = LastCloseOn(df, SecondLastDate(df))
        /\ result.latest = LastCloseOn(df, LastDate(df))
        /\ result = compute_change(LastTwoDays(df))

C1_Witness ==
    /\ pc = "returned"
    /\ Cardinality(DateSet(df)) = 3
    /\ Len(df) = 4
    /\ df[1].close # result.ref
    /\ df[1].close # result.latest
    /\ result.ref # result.latest
    /\ result.ref # Price(0)

\* C2: for a series on one date, referencePrice is the first close of the
\* series and latestPrice the last close of the series.
C2_SingleDayReference ==
    (pc = "returned" /\ Cardinality(DateSet(df)) = 1) =>
        /\ result.ref = df[1].close
        /\ result.latest = df[Len(df)].close

C2_Witness ==
    /\ pc = "returned"
    /\ Cardinality(DateSet(df)) = 1
    /\ Len(df) = 3
    /\ df[1].close # df[3].close
    /\ df[2].close # df[1].close
    /\ result.ref = df[1].close
    /\ result.latest = df[3].close

\* The reference price compute_change selects for a non-empty frame.
SelectedReference(frame) ==
    IF Cardinality(DateSet(frame)) >= 2
    THEN LastCloseOn(frame, SecondLastDate(frame))
    ELSE frame[1].close

\* C3: when the selected reference price is zero, compute_change returns
\* (None, None, None).
C3_ZeroReferenceUndefined ==
    (pc = "returned" /\ Len(df) > 0 /\ SelectedReference(df) = Price(0)) =>
        AllNone(result)

\* C4: the returned triple is all defined or all undefined, and all undefined
\* for the empty series.
C4_NeverPartiallyDefined ==
    pc = "returned" =>
        /\ AllNone(result) \/ AllDefined(result)
        /\ Len(df) = 0 => AllNone(result)

C4_Witness ==
    /\ pc = "returned"
    /\ Len(df) = 0
    /\ AllNone(result)

\* C8: a defined result with a non-zero referencePrice has changePercent equal
\* to (latestPrice - referencePrice) / referencePrice * 100 of the prices it
\* returns; scenario A gives (2.0, 100.0, 102.0), scenario B (-2.0, 50.0, 49.0).
C8_ChangeFormula ==
    pc = "returned" =>
        /\ (AllDefined(result) /\ result.ref # Price(0)) =>
              /\ result.change[2] > 0
              /\ result.change[1] * result.latest[2] * result.ref[1]
                   = result.change[2] * 100
                       * (result.latest[1] * result.ref[2]
                            - result.ref[1] * result.latest[2])
        /\ df = ScenarioA => result = Triple(Price(2), Price(100), Price(102))
        /\ df = ScenarioB => result = Triple(Price(-2), Price(50), Price(49))

C8_Witness ==
    /\ pc = "returned"
    /\ df = ScenarioB
    /\ result = Triple(Price(-2), Price(50), Price(49))

----------------------------------------------------------------------------
\* Properties of analyze_market (checked under SpecSignal).

\* The map as a set of items, whatever their insertion order.
Entries(d) == {d[i] : i \in 1..Len(d)}

Defined(d, k) == \E e \in Entries(d) : e[1] = k /\ e[2] # None

V(d, k) == (CHOOSE e \in Entries(d) : e[1] = k)[2]

Range(s) == {s[i] : i \in 1..Len(s)}

Pos(v) == v[1] > 0

Neg(v) == v[1] < 0

\* |v| < 0.5
InBand(v) == 2 * Abs(v[1]) < v[2]

\* The canonical rule table, in declaration order.
Rules ==
    << [label |-> BullishLabel, roles |-> {"ES=F", "NQ=F", "ZN=F"}],
       [label |-> BearishLabel,
        roles |-> {"ES=F", "NQ=F", "RTY=F", "VX=F", "GC=F", "ZN=F"}],
       [label |-> DefensiveLabel, roles |-> {"ES=F", "NQ=F", "RTY=F"}],
       [label |-> InflationLabel, roles |-> {"ES=F", "CL=F", "DX-Y.NYB"}] >>

Holds(label, d) ==
    CASE label = BullishLabel ->
           Pos(V(d, "ES=F")) /\ Pos(V(d, "NQ=F")) /\ Neg(V(d, "ZN=F"))
      [] label = BearishLabel ->
           /\ Neg(V(d, "ES=F")) /\ Neg(V(d, "NQ=F")) /\ Neg(V(d, "RTY=F"))
           /\ (Pos(V(d, "VX=F")) \/ Pos(V(d, "GC=F")) \/ Pos(V(d, "ZN=F")))
      [] label = DefensiveLabel ->
           InBand(V(d, "ES=F")) /\ Neg(V(d, "NQ=F")) /\ Neg(V(d, "RTY=F"))
      [] OTHER ->
           Neg(V(d, "ES=F")) /\ Pos(V(d, "CL=F")) /\ Pos(V(d, "DX-Y.NYB"))

Fires(r, d) == (\A k \in r.roles : Defined(d, k)) /\ Holds(r.label, d)

Expected(d) ==
    LET F(r) == Fires(r, d)
        fired == SelectSeq(Rules, F)
    IN  IF Len(fired) = 0 THEN <<FallbackLabel>>
        ELSE [i \in 1..Len(fired) |-> fired[i].label]

\* C5: a rule with an undefined (None or missing) required symbol does not
\* emit its label, whatever the other values; a value of exactly 0 counts as
\* defined (Defensive Rotation fires on es = 0 with falling tech and small caps).
C5_UndefinedInputSkipsRule ==
    pc = "returned" =>
        /\ \A i \in 1..Len(Rules) :
              (\E k \in Rules[i].roles : ~Defined(changes, k))
                  => Rules[i].label \notin Range(signals)
        /\ ( /\ Defined(changes, "ES=F") /\ V(changes, "ES=F") = Zero
             /\ Defined(changes, "NQ=F") /\ Neg(V(changes, "NQ=F"))
             /\ Defined(changes, "RTY=F") /\ Neg(V(changes, "RTY=F")) )
              => DefensiveLabel \in Range(signals)

C5_Witness ==
    /\ pc = "returned"
    /\ \A k \in {"ES=F", "NQ=F", "RTY=F"} : Defined(changes, k) /\ V(changes, k) = Price(-1)
    /\ <<"VX=F", None>> \in Entries(changes)
    /\ Defined(changes, "GC=F") /\ Pos(V(changes, "GC=F"))
    /\ Defined(changes, "ZN=F")
    /\ BearishLabel \notin Range(signals)

\* C6: the returned list is never empty; it is exactly the fallback label when
\* no rule fired and does not hold the fallback label when a rule fired.
C6_FallbackOnlyWhenNothingFired ==
    pc = "returned" =>
        /\ Len(signals) >= 1
        /\ (\A i \in 1..Len(Rules) : ~Fires(Rules[i], changes))
              => signals = <<FallbackLabel>>
        /\ (\E i \in 1..Len(Rules) : Fires(Rules[i], changes))
              => FallbackLabel \notin Range(signals)

C6_Witness ==
    /\ pc = "returned"
    /\ \A k \in ReadSymbols : Defined(changes, k)
    /\ \A k \in {"ES=F", "NQ=F", "RTY=F", "ZN=F"} : V(changes, k) = Zero
    /\ signals = <<FallbackLabel>>

\* C7: the emitted labels are exactly those of the rules of the canonical table
\* whose required symbols are all defined and whose predicate holds, each once,
\* in table order; the same map with its keys inserted in the opposite order
\* gives the same list.
C7_CanonicalRuleTable ==
    pc = "returned" =>
        /\ signals = Expected(changes)
        /\ analyze_market(Reversed(changes)) = signals

C7_Witness ==
    /\ pc = "returned"
    /\ Len(changes) = 9
    /\ changes[1][1] = "DX-Y.NYB"
    /\ signals = <<BearishLabel, InflationLabel>>

\* C10: the Bullish label never appears with another label, so the list has at
\* most three elements.
C10_BullishExcludesOthers ==
    pc = "returned" =>
        /\ BullishLabel \in Range(signals) => signals = <<BullishLabel>>
        /\ Len(signals) <= 3

C10_Witness ==
    /\ pc = "returned"
    /\ signals = <<BearishLabel, DefensiveLabel, InflationLabel>>

----------------------------------------------------------------------------
\* Properties of main (checked under Spec).

Keys(d) == {d[i][1] : i \in 1..Len(d)}

\* C9: analyze_market is called only once compute_change has run for every
\* configured ticker; the change map then has an entry for every symbol the
\* rules read, and it is not modified by that call nor afterwards until the
\* cycle ends.
C9_AnalyzeAfterAllChanges ==
    [][ /\ (pc = "loop" /\ pc' = "render") =>
             /\ idx = Len(Tickers)
             /\ Keys(changes) = {Tickers[i] : i \in 1..Len(Tickers)}
             /\ {"ES=F", "NQ=F", "RTY=F", "ZN=F", "VX=F", "GC=F", "CL=F", "DX-Y.NYB"}
                   \subseteq Keys(changes)
             /\ changes' = changes
        /\ pc = "render" => changes' = changes ]_vars

C9_Witness ==
    /\ pc = "done"
    /\ Len(changes) = Len(Tickers)
    /\ <<"VX=F", None>> \in Entries(changes)
    /\ signals = <<InflationLabel>>
    /\ Len(shown) = Len(DisplayOrder)

====
